---- MODULE Spec2Model ----
(***************************************************************************)
(* Model of the chat capture engine (ChatScraper): the scroll-driven      *)
(* history loader (phase 1), the sweep-and-capture loop (phase 2), the    *)
(* fingerprint-keyed accumulator and the finalization pass.               *)
(*                                                                         *)
(* The engine runs on the page's single event loop.  Each action below is *)
(* one synchronous stretch of captureFullHistory between two awaits; the  *)
(* host page and the caller of stop() only run while the call is          *)
(* suspended in a wait.  Strings are sequences of UTF-16 code units.      *)
(***************************************************************************)
EXTENDS Integers, Sequences, FiniteSets, TLC

VARIABLES
    capturedMessages,     \* ChatScraper.capturedMessages
    isCapturing,          \* ChatScraper.isCapturing (the run / cancel flag)
    seenMessageHashes,    \* ChatScraper.seenMessageHashes
    scrollAttempts,       \* ChatScraper.scrollAttempts
    pc,                   \* where the captureFullHistory call is suspended
    platform,             \* the PlatformProfile the call was given
    iteration,            \* scrollToAbsoluteTop: iteration
    stableCount,          \* scrollToAbsoluteTop: stableCount
    previousScrollHeight, \* scrollToAbsoluteTop: previousScrollHeight
    loadMoreClicked,      \* scrollToAbsoluteTop: loadMoreClicked
    totalScrolled,        \* scrollAndCaptureAll: totalScrolled
    previousMessageCount, \* scrollAndCaptureAll: previousMessageCount
    sweepStable,          \* scrollAndCaptureAll: stableCount
    result,               \* value the call resolved with
    error,                \* error the call rejected with
    host,                 \* the kind of host page (fixed for a behaviour)
    scrollHeight,         \* scrollable.scrollHeight
    scrollTop,            \* scrollable.scrollTop
    button,               \* the page's load-more control
    grown,                \* how often the page has loaded more rows lazily
    loaded,               \* how many load-more clicks the page has served
    progressLog,          \* history: the events passed to onProgress
    loadedAtStart,        \* history: the value of loaded when the call began
    stopPhase,            \* history: phase in which stop() hit this call
    clicked,              \* history: this call clicked a load-more control
    scrolled,             \* history: this call moved the scroll position
    captured,             \* history: this call ran a capture pass
    probe,                \* the arguments of a direct call of a helper
    answer,               \* what that call returned
    quietIterations,      \* history: the latest phase-1 iterations in a row
                          \* without a click, counted up to 5
    Overlay,              \* the Overlay object: overlay, isVisible,
                          \* isCapturing, capturedData
    elements,             \* the overlay elements in the document, and those
                          \* whose capture button is disabled
    timers,               \* pending removal callbacks of hide()
    captures,             \* the startCapture calls suspended in an await
    refused               \* history: a startCapture call returned at once

\* the state of the Overlay and of its element, timers and calls
OverlayState == <<Overlay, elements, timers, captures, refused>>

\* the state of ChatScraper, of the page and of the call that is followed
ScraperState ==
    <<capturedMessages, isCapturing, seenMessageHashes, scrollAttempts,
      pc, platform, iteration, stableCount, previousScrollHeight,
      loadMoreClicked, totalScrolled, previousMessageCount, sweepStable,
      result, error, host, scrollHeight, scrollTop, button, grown,
      stopPhase, clicked, scrolled, captured, loaded, progressLog,
      loadedAtStart, probe, answer, quietIterations>>

vars == <<ScraperState, OverlayState>>

-----------------------------------------------------------------------------
(* Strings *)

IsSpace(c) == c \in {9, 10, 11, 12, 13, 32}

RECURSIVE TrimStart(_)
TrimStart(s) ==
    IF s = <<>> THEN <<>>
    ELSE IF IsSpace(Head(s)) THEN TrimStart(Tail(s)) ELSE s

RECURSIVE TrimEnd(_)
TrimEnd(s) ==
    IF s = <<>> THEN <<>>
    ELSE IF IsSpace(s[Len(s)]) THEN TrimEnd(SubSeq(s, 1, Len(s) - 1)) ELSE s

\* String.prototype.trim
Trim(s) == TrimEnd(TrimStart(s))

\* String.prototype.slice(0, n)
Slice(s, n) == IF Len(s) <= n THEN s ELSE SubSeq(s, 1, n)

\* Number.prototype.toString(10) of a non-negative integer
RECURSIVE Dec(_)
Dec(n) == IF n < 10 THEN <<48 + n>> ELSE Dec(n \div 10) \o <<48 + (n % 10)>>

-----------------------------------------------------------------------------
(* Stable Hasher.  A 32-bit value is kept as two 16-bit halves so that    *)
(* the wrap-around of the code's int32 arithmetic is computed exactly.    *)

W16 == 65536

HiOf(h) == (h \div W16) % W16
LoOf(h) == h % W16

\* ToInt32 of the unsigned value hi * 2^16 + lo
ToInt32(hi, lo) ==
    IF hi >= 32768 THEN (hi - W16) * W16 + lo ELSE hi * W16 + lo

\* hash = ((hash << 5) - hash) + char; hash = hash & hash
HashStep(hash, char) ==
    LET hi   == HiOf(hash)
        lo   == LoOf(hash)
        lo5  == lo * 32
        hi5  == (hi * 32 + (lo5 \div W16)) % W16
        low  == (lo5 % W16) - lo + char
        high == (hi5 - hi + (low \div W16)) % W16
    IN  ToInt32(high, low % W16)

\* the for loop over str[lo..hi], left to right.  The range is split in
\* halves, and the left half is made a value by the test on it before the
\* right half is folded, to keep the evaluation of long strings shallow.
RECURSIVE HashFrom(_, _, _, _)
HashFrom(hash, str, lo, hi) ==
    IF lo > hi THEN hash
    ELSE IF lo = hi THEN HashStep(hash, str[lo])
    ELSE LET mid == (lo + hi) \div 2
             left == HashFrom(hash, str, lo, mid)
         IN  IF left = 0 THEN HashFrom(0, str, mid + 1, hi)
             ELSE HashFrom(left, str, mid + 1, hi)

HexDigit(n) == IF n < 10 THEN 48 + n ELSE 87 + n

RECURSIVE HexDigits(_)
HexDigits(n) ==
    IF n < 16 THEN <<HexDigit(n)>>
    ELSE HexDigits(n \div 16) \o <<HexDigit(n % 16)>>

Pad4(d) == [i \in 1..(4 - Len(d)) |-> 48] \o d

\* hex digits of the unsigned value hi * 2^16 + lo, no leading zeros
HexOf(hi, lo) ==
    IF hi = 0 THEN HexDigits(lo) ELSE HexDigits(hi) \o Pad4(HexDigits(lo))

\* faulty variant: the two's complement digits of a negative value
ToHexUnsigned(h) == HexOf(HiOf(h), LoOf(h))

\* Number.prototype.toString(16) of an int32
ToHex(h) ==
    IF h >= 0 THEN HexOf(HiOf(h), LoOf(h))
    ELSE LET lo == LoOf(h)
             hi == HiOf(h)
             mlo == (W16 - lo) % W16
             mhi == (W16 - hi - (IF lo = 0 THEN 0 ELSE 1)) % W16
         IN  <<45>> \o HexOf(mhi, mlo)

hashString(str) == ToHex(HashFrom(0, str, 1, Len(str)))

-----------------------------------------------------------------------------
(* Platform profiles.  Each optional selector override is absent, a valid *)
(* selector, or a selector querySelector rejects with a SyntaxError (as   *)
(* 'button:contains("Load more")' of the bolt profile does).              *)

SelectorStates == {"none", "valid", "invalid"}

Profile(c, m, t, b) ==
    [chatContainer |-> c, chatMessage |-> m, messageContent |-> t,
     loadMoreButton |-> b]

NoOverrides == Profile("none", "none", "none", "none")

AllValid == Profile("valid", "valid", "valid", "valid")

Platforms ==
    { NoOverrides,
      AllValid,
      Profile("invalid", "valid", "valid", "valid"),
      Profile("valid", "invalid", "valid", "valid"),
      Profile("valid", "valid", "invalid", "valid"),
      Profile("valid", "valid", "valid", "invalid") }

-----------------------------------------------------------------------------
(* Message elements of the host page.  An element carries what the        *)
(* extractor reads from it: its identifier attribute, class name and raw  *)
(* text, the text of the node the platform content selector matches (at   *)
(* most one), the texts of the nodes the generic content selectors match  *)
(* (in selector order) and the element's own text after the clean-up of   *)
(* getCleanText, before trimming.  An absent value is the empty sequence. *)

Element(id, cls, raw, pm, gen, own, role) ==
    [dataId |-> id, className |-> cls, textContent |-> raw,
     platformMatch |-> pm, genericTexts |-> gen, ownText |-> own,
     role |-> role, timestamp |-> <<>>, codeBlocks |-> <<>>,
     artifacts |-> <<>>, innerHTML |-> raw]

\* a row "a" with identifier "1"
RowA1 == Element(<<49>>, <<109>>, <<97>>, <<>>, <<<<97>>>>, <<97>>, "user")
\* the same text remounted under identifier "2"
RowA2 == Element(<<50>>, <<109>>, <<97>>, <<>>, <<<<97>>>>, <<97>>, "user")
\* a row " b " without identifier, class "m", with the timestamp "10:15",
\* a code block "x" and an artifact "f"
RowB ==
    [Element(<<>>, <<109>>, <<32, 98, 32>>, <<>>, <<>>, <<32, 98, 32>>,
             "assistant")
       EXCEPT !.timestamp = <<49, 48, 58, 49, 53>>,
              !.codeBlocks = << <<120>> >>,
              !.artifacts = << <<102>> >>]
\* identifier "1" rendered as a not yet populated placeholder
RowHollow == Element(<<49>>, <<109>>, <<>>, <<>>, <<>>, <<>>, "assistant")
\* a row of white space only
RowBlank == Element(<<>>, <<>>, <<32, 10>>, <<>>, <<<<32>>>>, <<32, 10>>,
                    "assistant")

\* two rows whose texts "Aa" and "BB" differ and hash alike
RowAa == Element(<<51>>, <<109>>, <<65, 97>>, <<>>, <<>>, <<65, 97>>, "user")
RowBB == Element(<<52>>, <<109>>, <<66, 66>>, <<>>, <<>>, <<66, 66>>,
                 "assistant")
\* the n-th row a load-more click brings in: "m" followed by n
LoadedRow(n) ==
    Element(<<>>, <<109>>, <<109>> \o Dec(n), <<>>, <<>>, <<109>> \o Dec(n),
            "user")

\* el.getAttribute('data-message-id') || el.getAttribute('data-id') || ''
StableId(messageId, dataId) == IF messageId # <<>> THEN messageId ELSE dataId

\* a row "a" with data-message-id "7" and data-id "8"
RowTwoIds ==
    Element(StableId(<<55>>, <<56>>), <<109>>, <<97>>, <<>>, <<>>, <<97>>,
            "user")
\* an empty row without class whose data-id "0" reads like a hash
RowHexId ==
    Element(StableId(<<>>, <<48>>), <<>>, <<>>, <<>>, <<>>, <<>>, "user")

\* a text of 301 letters
LongText == [i \in 1..301 |-> 97 + (i % 26)]
\* a row without identifier whose text is longer than the hashed prefix
RowLong == Element(<<>>, <<109>>, LongText, <<>>, <<>>, LongText, "user")
\* the same row rendered with two leading blanks
RowLongPadded ==
    Element(<<>>, <<109>>, <<32, 32>> \o LongText, <<>>, <<>>,
            <<32, 32>> \o LongText, "user")
\* a row "c" without identifier whose class name has 52 characters
RowLongClass ==
    Element(<<>>, [i \in 1..52 |-> 99 + (i \div 51)], <<99>>, <<>>, <<>>,
            <<99>>, "user")

\* the sub-sequences of a document, in document order
RECURSIVE SubLists(_)
SubLists(doc) ==
    IF doc = <<>> THEN { <<>> }
    ELSE LET rest == SubLists(Tail(doc))
         IN  rest \cup { <<Head(doc)>> \o r : r \in rest }

-----------------------------------------------------------------------------
(* Content Extractor *)

\* clone.textContent?.trim() || ''
getCleanText(text) == Trim(text)

RECURSIVE FirstNonEmpty(_, _)
FirstNonEmpty(texts, fallback) ==
    IF texts = <<>> THEN fallback
    ELSE IF Len(getCleanText(Head(texts))) > 0 THEN getCleanText(Head(texts))
         ELSE FirstNonEmpty(Tail(texts), fallback)

\* el.querySelector(platform.selectors.messageContent) throws
extractContentThrows(p) == p.messageContent = "invalid"

extractContent(el, p) ==
    IF p.messageContent = "valid" /\ el.platformMatch # <<>>
    THEN getCleanText(el.platformMatch[1])
    ELSE FirstNonEmpty(el.genericTexts, getCleanText(el.ownText))

IdPrefix == <<105, 100, 95>>      \* "id_"
MsgPrefix == <<109, 115, 103, 95>> \* "msg_"
Underscore == 95

\* faulty variant: a fingerprint that ignores the identifier
hashElementByContent(el) ==
    hashString(Trim(Slice(el.textContent, 300)) \o Slice(el.className, 50))

\* hashElement of a DOM element
hashElement(el) ==
    LET content == Trim(Slice(el.textContent, 300))
    IN  IF el.dataId # <<>> THEN IdPrefix \o el.dataId
        ELSE hashString(content \o Slice(el.className, 50))

\* faulty variant: a fingerprint salted with the attempt counter
hashElementSalted(el, session) ==
    [value |-> hashElement(el) \o Dec(session.attempts), session |-> session]

\* A call of hashElement in a session [msgs, seen, attempts, running]: the
\* fingerprint it returns and the session it leaves.  The method reads its
\* argument and calls hashString, nothing else.
hashElementCall(el, session) ==
    [value |-> hashElement(el), session |-> session]

\* hashElement of the plain object { textContent: text }
hashContent(text) == hashString(Trim(Slice(text, 300)))

extractMessage(el, p, index) ==
    [id |-> MsgPrefix \o hashElement(el) \o <<Underscore>> \o Dec(index),
     role |-> el.role,
     content |-> extractContent(el, p),
     timestamp |-> el.timestamp,
     codeBlocks |-> el.codeBlocks,
     artifacts |-> el.artifacts,
     order |-> index,
     rawHtml |-> <<Slice(el.innerHTML, 500)>>]

-----------------------------------------------------------------------------
(* Message Accumulator *)

\* faulty variant: the forEach callback without the seen-set test
captureElementUnguarded(acc, el, p) ==
    LET hash == hashElement(el)
        message == extractMessage(el, p, Len(acc.msgs))
    IN  IF acc.threw THEN acc
        ELSE IF extractContentThrows(p)
             THEN [acc EXCEPT !.seen = @ \cup {hash}, !.threw = TRUE]
             ELSE IF Len(Trim(message.content)) > 0
                  THEN [acc EXCEPT !.seen = @ \cup {hash},
                                   !.msgs = Append(@, message)]
                  ELSE [acc EXCEPT !.seen = @ \cup {hash}]

\* faulty variant: the forEach callback without the empty-content test
captureElementKeepingEmpty(acc, el, p) ==
    LET hash == hashElement(el)
    IN  IF acc.threw \/ hash \in acc.seen THEN acc
        ELSE IF extractContentThrows(p)
             THEN [acc EXCEPT !.seen = @ \cup {hash}, !.threw = TRUE]
             ELSE [acc EXCEPT !.seen = @ \cup {hash},
                              !.msgs = Append(@, extractMessage(el, p, Len(@)))]

\* the body of the forEach callback for one element; acc is the session
\* state [msgs, seen] plus whether an earlier element made the pass throw
captureElement(acc, el, p) ==
    LET hash == hashElement(el)
    IN  IF acc.threw \/ hash \in acc.seen THEN acc
        ELSE IF extractContentThrows(p)
             THEN [acc EXCEPT !.seen = @ \cup {hash}, !.threw = TRUE]
             ELSE LET message == extractMessage(el, p, Len(acc.msgs))
                  IN  IF Len(Trim(message.content)) > 0
                      THEN [acc EXCEPT !.seen = @ \cup {hash},
                                       !.msgs = Append(@, message)]
                      ELSE [acc EXCEPT !.seen = @ \cup {hash}]

RECURSIVE captureVisibleMessages(_, _, _)
captureVisibleMessages(acc, els, p) ==
    IF els = <<>> THEN acc
    ELSE captureVisibleMessages(captureElement(acc, Head(els), p), Tail(els), p)

\* insertion of m into a sequence sorted by order, after its equals
RECURSIVE InsertByOrder(_, _)
InsertByOrder(sorted, m) ==
    IF sorted = <<>> THEN <<m>>
    ELSE IF m.order < Head(sorted).order THEN <<m>> \o sorted
         ELSE <<Head(sorted)>> \o InsertByOrder(Tail(sorted), m)

\* faulty variant: a sort with the comparison the other way round
SortNewestFirst(msgs) == [i \in 1..Len(msgs) |-> msgs[Len(msgs) - i + 1]]

\* [...msgs].sort((a, b) => a.order - b.order), a stable sort
RECURSIVE SortByOrder(_)
SortByOrder(msgs) ==
    IF msgs = <<>> THEN <<>>
    ELSE InsertByOrder(SortByOrder(SubSeq(msgs, 1, Len(msgs) - 1)),
                       msgs[Len(msgs)])

\* faulty variant: a loop that keeps the last message of each content hash
RECURSIVE UniqueKeepingLast(_, _)
UniqueKeepingLast(sorted, contentHashes) ==
    IF sorted = <<>> THEN <<>>
    ELSE LET msg == Head(sorted)
             later == { hashContent(sorted[i].content) :
                          i \in 2..Len(sorted) }
         IN  IF hashContent(msg.content) \notin later
                /\ Len(Trim(msg.content)) > 0
             THEN <<msg>> \o UniqueKeepingLast(Tail(sorted), contentHashes)
             ELSE UniqueKeepingLast(Tail(sorted), contentHashes)

\* the loop of processMessages that keeps the first message of each
\* content hash
RECURSIVE Unique(_, _)
Unique(sorted, contentHashes) ==
    IF sorted = <<>> THEN <<>>
    ELSE LET msg == Head(sorted)
             contentHash == hashContent(msg.content)
         IN  IF contentHash \notin contentHashes /\ Len(Trim(msg.content)) > 0
             THEN <<msg>> \o Unique(Tail(sorted), contentHashes \cup {contentHash})
             ELSE Unique(Tail(sorted), contentHashes)

\* faulty variant: a map that strips the debug payload and keeps the order
RenumberKeepingOrder(unique) ==
    [i \in 1..Len(unique) |-> [unique[i] EXCEPT !.rawHtml = <<>>]]

\* faulty variant: a map that also resets the role
RenumberResettingRole(unique) ==
    [i \in 1..Len(unique) |->
        [unique[i] EXCEPT !.order = i - 1, !.rawHtml = <<>>, !.role = "user"]]

\* unique.map((msg, i) => ({ ...msg, order: i, rawHtml: undefined }))
Renumber(unique) ==
    [i \in 1..Len(unique) |-> [unique[i] EXCEPT !.order = i - 1, !.rawHtml = <<>>]]

processMessages(msgs) == Renumber(Unique(SortByOrder(msgs), {}))

-----------------------------------------------------------------------------
(* The host page.  A host is a site: the shape of its page and the        *)
(* profiles the platform registry holds for it.                           *)

\* A load-more control and the strategy of tryClickLoadMore that finds it:
\* the platform selector, a generic selector, the three phrases that
\* hasLoadMoreButton also knows ("text"), or one of the other five phrases.
Control(by, visible, disabled) ==
    [by |-> by, visible |-> visible, disabled |-> disabled]

NoControl == Control("none", FALSE, FALSE)

Controls ==
    { NoControl,
      Control("text", TRUE, FALSE),
      Control("platform", TRUE, FALSE),
      Control("generic", TRUE, TRUE) }

\* scrollMax of the scrollable element; an element that findScrollableElement
\* fell back to without its being scrollable stays at position 0
MaxTop(h, height) ==
    IF h.scrolls /\ height > h.clientHeight THEN height - h.clientHeight
    ELSE 0

Host(metrics, container, markup, doc, heights, controls, lazy, profiles) ==
    [metrics |-> metrics, container |-> container, markup |-> markup,
     doc |-> doc, heights |-> heights, controls |-> controls, lazy |-> lazy,
     profiles |-> profiles, clientHeight |-> 500, virtual |-> TRUE,
     offers |-> 0, scrolls |-> TRUE]

\* a page without any chat surface
BareHost ==
    Host("quiet", "none", "generic", <<>>, {400}, {NoControl}, FALSE,
         Platforms)

\* a short page whose scroll metrics and load-more control change at will
RestlessHost ==
    Host("restless", "generic", "generic", <<RowA1>>, {400, 520}, Controls,
         FALSE, {AllValid})

\* a long, virtualized list: each pass sees some of the rows
VirtualHost ==
    Host("quiet", "platform", "generic",
         <<RowHollow, RowA1, RowB, RowA2, RowBlank>>, {1100}, {NoControl},
         FALSE, Platforms)

\* how many clicks a page with older history offers its load-more control
\* for, and how many rows each click brings in
ClicksOffered == 5
RowsPerClick == 3

\* a page that renders all its rows all the time and never changes
StaticHost ==
    [Host("quiet", "generic", "generic", <<RowAa, RowB, RowBB>>, {700},
          {NoControl}, FALSE, Platforms) EXCEPT !.virtual = FALSE]

\* a page that keeps older rows behind a load-more control
LoadMoreHost ==
    [Host("quiet", "generic", "generic", <<RowA1, RowB>>, {700},
          { Control("text", TRUE, FALSE), Control("othertext", TRUE, FALSE),
            Control("generic", TRUE, FALSE) },
          FALSE, {NoOverrides, AllValid})
       EXCEPT !.virtual = FALSE, !.offers = ClicksOffered]

\* a tall page that may append rows while it is swept
GrowingHost ==
    [Host("quiet", "generic", "generic", <<RowB>>, {1700}, {NoControl},
          TRUE, {NoOverrides}) EXCEPT !.virtual = FALSE]

\* a page taller than its viewport whose container does not scroll
StuckHost ==
    [Host("quiet", "generic", "generic", <<RowB>>, {700}, {NoControl},
          FALSE, {NoOverrides}) EXCEPT !.virtual = FALSE, !.scrolls = FALSE]

Hosts ==
    { BareHost, RestlessHost, VirtualHost, StaticHost, LoadMoreHost,
      GrowingHost, StuckHost }

\* how many iterations of a sweep that does not end are followed
MaxSweeps == 10

\* how often a lazy page loads further rows during the sweep
MaxGrowth == 1

\* the rows of the page after n load-more clicks, oldest first
Document(h, n) ==
    [i \in 1..(n * RowsPerClick) |-> LoadedRow(n * RowsPerClick - i + 1)]
        \o h.doc

\* the row lists a capture pass may find rendered
Renderings(h, n) ==
    IF h.virtual THEN SubLists(Document(h, n)) ELSE { Document(h, n) }

\* the page after the click handler of its load-more control has run
PageAfterClick(h, height, ctl, n) ==
    IF h.offers = 0
    THEN [height |-> height, control |-> ctl, loaded |-> n]
    ELSE [height |-> height + RowsPerClick * 20,
          control |-> IF n + 1 >= h.offers THEN NoControl ELSE ctl,
          loaded |-> n + 1]

\* what the page may have turned into when a wait is over
PageMoves(h, height, top, ctl, g) ==
    IF h.metrics = "restless"
    THEN { m \in [height : h.heights, top : {0, 20}, control : h.controls,
                   grown : {g}] : m.top <= MaxTop(h, m.height) }
    ELSE { [height |-> height, top |-> top, control |-> ctl, grown |-> g] }
         \cup ( IF h.lazy /\ g < MaxGrowth /\ top > 0
                THEN { [height |-> height + 600, top |-> top,
                        control |-> ctl, grown |-> g + 1] }
                ELSE {} )

\* scrollTop after the page clamps a requested position
Clamp(h, height, y) ==
    IF y < 0 THEN 0
    ELSE IF y > MaxTop(h, height) THEN MaxTop(h, height) ELSE y

-----------------------------------------------------------------------------
(* Element Locator *)

\* document.querySelector(platform.selectors.chatContainer) throws
findChatContainerThrows(p) == p.chatContainer = "invalid"

\* faulty variant: a locator that falls back to the document body
findChatContainerAnything(p, h) == TRUE

\* TRUE iff findChatContainer returns an element
findChatContainer(p, h) ==
    \/ p.chatContainer = "valid" /\ h.container = "platform"
    \/ h.container = "generic"

\* What document.querySelectorAll does with one selector: it throws (the
\* selector is invalid) or returns the elements it matches, in document
\* order.
Match(valid, els) == [valid |-> valid, els |-> els]

Invalid == Match(FALSE, <<>>)

\* String.prototype.split(sep)
RECURSIVE Split(_, _, _)
Split(str, sep, part) ==
    IF str = <<>> THEN <<part>>
    ELSE IF Head(str) = sep THEN <<part>> \o Split(Tail(str), sep, <<>>)
         ELSE Split(Tail(str), sep, Append(part, Head(str)))

\* platform.selectors.chatMessage.split(',').map(s => s.trim())
SelectorParts(selector) ==
    LET parts == Split(selector, 44, <<>>)
    IN  [i \in DOMAIN parts |-> Trim(parts[i])]

\* document.querySelectorAll(selector) on a page that knows some selectors;
\* any other string is not a selector
QueryAll(matches, selector) ==
    IF selector \in DOMAIN matches THEN matches[selector] ELSE Invalid

\* faulty variant: the loops collect the matches of all their selectors
RECURSIVE MergedMatches(_)
MergedMatches(results) ==
    IF results = <<>> THEN <<>>
    ELSE (IF Head(results).valid THEN Head(results).els ELSE <<>>)
            \o MergedMatches(Tail(results))

\* the for loops of findMessageElements over the results of their
\* selectors: the first non-empty match, or nothing
RECURSIVE FirstMatch(_)
FirstMatch(results) ==
    IF results = <<>> THEN <<>>
    ELSE IF Head(results).valid /\ Len(Head(results).els) > 0
         THEN Head(results).els
         ELSE FirstMatch(Tail(results))

\* findMessageElements for a platform selector (empty if the profile has
\* none) on a page given by the matches of the platform's selectors and
\* the results of the generic selectors, in the order of the code's list
findMessageElementsOn(selector, matches, generic) ==
    LET parts == IF selector = <<>> THEN <<>> ELSE SelectorParts(selector)
        fromPlatform ==
            FirstMatch([i \in DOMAIN parts |-> QueryAll(matches, parts[i])])
    IN  IF Len(fromPlatform) > 0 THEN fromPlatform ELSE FirstMatch(generic)

\* the rendered rows that findMessageElements returns on a host page, whose
\* rows match either the profile's selector "p" or one generic selector
findMessageElements(p, h, rendered) ==
    findMessageElementsOn(
        IF p.chatMessage = "none" THEN <<>> ELSE <<112>>,
        IF p.chatMessage = "valid"
        THEN (<<112>> :> Match(TRUE, IF h.markup = "platform" THEN rendered
                                     ELSE <<>>))
        ELSE (<<112>> :> Invalid),
        << Match(TRUE, IF h.markup = "generic" THEN rendered ELSE <<>>) >>)

\* The DOM around a chat container.  A descendant is named by its path,
\* the child indices that lead to it from the container; nodes is the set
\* of paths that exist, scrollable the set of those isScrollable accepts,
\* container tells whether it accepts the container, and ancestors lists
\* the same for the container's ancestors below document.body, nearest
\* first.
Dom(nodes, scrollable, container, ancestors) ==
    [nodes |-> nodes, scrollable |-> scrollable, container |-> container,
     ancestors |-> ancestors]

\* what findScrollableElement returns: the container, the descendant at a
\* path, or the ancestor at a level
Found(kind, path, level) == [kind |-> kind, path |-> path, level |-> level]

\* checkChildren(el, depth): the path of the element it returns, or the
\* empty path for null; ScanChildren is its for loop from the i-th child on
RECURSIVE checkChildren(_, _, _)
RECURSIVE ScanChildren(_, _, _, _)
ScanChildren(dom, el, depth, i) ==
    LET child == Append(el, i)
    IN  IF child \notin dom.nodes THEN <<>>
        ELSE IF child \in dom.scrollable THEN child
        ELSE LET found == checkChildren(dom, child, depth + 1)
             IN  IF found # <<>> THEN found
                 ELSE ScanChildren(dom, el, depth, i + 1)

checkChildren(dom, el, depth) ==
    IF depth > 3 THEN <<>> ELSE ScanChildren(dom, el, depth, 1)

\* the while loop over the parents: the level of the first scrollable
\* ancestor from level i on, or 0
RECURSIVE ScanParents(_, _)
ScanParents(dom, i) ==
    IF i > Len(dom.ancestors) THEN 0
    ELSE IF dom.ancestors[i] THEN i ELSE ScanParents(dom, i + 1)

findScrollableElement(dom) ==
    IF dom.container THEN Found("container", <<>>, 0)
    ELSE IF checkChildren(dom, <<>>, 0) # <<>>
    THEN Found("descendant", checkChildren(dom, <<>>, 0), 0)
    ELSE IF ScanParents(dom, 1) > 0
    THEN Found("ancestor", <<>>, ScanParents(dom, 1))
    ELSE Found("container", <<>>, 0)

\* document.querySelector(platform.selectors.loadMoreButton) throws
tryClickLoadMoreThrows(p) == p.loadMoreButton = "invalid"

\* faulty variant: tryClickLoadMore without the text-based search
tryClickLoadMoreBySelector(p, ctl) ==
    \/ p.loadMoreButton = "valid" /\ ctl.by = "platform"
         /\ ctl.visible /\ ~ctl.disabled
    \/ ctl.by = "generic" /\ ctl.visible /\ ~ctl.disabled

\* the place in the page of the first control of one of the kinds, or 0
FirstOf(page, kinds) ==
    IF \E i \in DOMAIN page : page[i].by \in kinds
    THEN CHOOSE i \in DOMAIN page :
           /\ page[i].by \in kinds
           /\ \A j \in 1..(i - 1) : page[j].by \notin kinds
    ELSE 0

\* what a call of tryClickLoadMore does: the places of the controls it
\* clicks, in order, and what it returns
Clicking(clicks, returned) == [clicks |-> clicks, returned |-> returned]

\* tryClickLoadMore on a page given by its load-more controls in document
\* order, for a profile whose selector (if any) is valid.  querySelector
\* yields the first match of a selector only; the generic controls of a
\* page all match the same generic selector; the text search goes on past
\* controls that are not visible.
tryClickLoadMoreOn(p, page) ==
    LET btn == FirstOf(page, {"platform"})
        element == FirstOf(page, {"generic"})
        byText == { i \in DOMAIN page :
                      page[i].by \in {"text", "othertext"} /\ page[i].visible }
    IN  IF p.loadMoreButton = "valid" /\ btn > 0 /\ page[btn].visible
           /\ ~page[btn].disabled
        THEN Clicking(<<btn>>, TRUE)
        ELSE IF element > 0 /\ page[element].visible
                /\ ~page[element].disabled
        THEN Clicking(<<element>>, TRUE)
        ELSE IF byText # {}
        THEN Clicking(<<CHOOSE i \in byText : \A j \in byText : i <= j>>, TRUE)
        ELSE Clicking(<<>>, FALSE)

\* TRUE iff tryClickLoadMore clicks the one control of a host page
tryClickLoadMore(p, ctl) ==
    tryClickLoadMoreOn(p, IF ctl.by = "none" THEN <<>> ELSE <<ctl>>).returned

hasLoadMoreButton(p, ctl) ==
    \/ p.loadMoreButton = "valid" /\ ctl.by = "platform" /\ ctl.visible
    \/ ctl.by = "text" /\ ctl.visible

-----------------------------------------------------------------------------
(* captureFullHistory *)

maxScrollAttempts == 300

maxStable == 8

P1Waits == {"p1_wait300", "p1_wait"}
P2Waits == {"p2_wait500", "p2_wait250", "p2_wait100", "p2_bottom500",
            "p2_bottom300"}
Ended == {"idle", "returned", "threw"}

\* a progress value, kept as an exact fraction
Ratio(n, d) == [num |-> n, den |-> d]

\* a <= b for two progress values
AtMost(a, b) == a.num * b.den <= b.num * a.den

\* the argument of an onProgress call: its phase, progress and, where the
\* code passes one, count (-1 otherwise); the message text is left out
Event(phase, progress, count) ==
    [phase |-> phase, progress |-> progress, count |-> count]

\* Math.min(45, 2 + (iteration / this.maxScrollAttempts) * 43)
P1Progress(i) ==
    IF 2 * maxScrollAttempts + 43 * i > 45 * maxScrollAttempts
    THEN Ratio(45, 1)
    ELSE Ratio(2 * maxScrollAttempts + 43 * i, maxScrollAttempts)

\* 50 + Math.min(45, (totalScrolled / scrollable.scrollHeight) * 45)
P2Progress(total, height) ==
    IF total >= height THEN Ratio(95, 1)
    ELSE Ratio(50 * height + 45 * total, height)

\* the events of phase 3, for the finalized messages
Completed(log, finalMessages) ==
    log \o << Event("finalizing", Ratio(95, 1), -1),
              Event("complete", Ratio(100, 1), Len(finalMessages)) >>

\* the platform features startCapture asks PlatformRegistry about
Features == {"artifacts", "diffs", "terminal"}

\* the Overlay object as the script defines it, on a page of a platform
\* with the features f: no element, no timer, no call
OverlayBegins(f) ==
    /\ Overlay = [overlay |-> 0, isVisible |-> FALSE, isCapturing |-> FALSE,
                  capturedData |-> FALSE]
    /\ elements = [attached |-> {}, disabled |-> {}, ready |-> {},
                   features |-> f]
    /\ timers = 0
    /\ captures = <<>>
    /\ refused = FALSE

\* the ChatScraper object as the script defines it, on some host page
ScraperInit ==
    /\ capturedMessages = <<>>
    /\ isCapturing = FALSE
    /\ seenMessageHashes = {}
    /\ scrollAttempts = 0
    /\ pc = "idle"
    /\ platform = NoOverrides
    /\ iteration = 0
    /\ stableCount = 0
    /\ previousScrollHeight = -1
    /\ loadMoreClicked = FALSE
    /\ totalScrolled = 0
    /\ previousMessageCount = 0
    /\ sweepStable = 0
    /\ result = <<>>
    /\ error = "none"
    /\ host \in Hosts
    /\ scrollHeight \in host.heights
    /\ scrollTop = MaxTop(host, scrollHeight)
    /\ button \in host.controls
    /\ grown = 0
    /\ loaded = 0
    /\ progressLog = <<>>
    /\ loadedAtStart = 0
    /\ stopPhase = "none"
    /\ clicked = FALSE
    /\ scrolled = FALSE
    /\ captured = FALSE
    /\ probe = [fn |-> "none"]
    /\ answer = [fn |-> "none"]
    /\ quietIterations = 0

Init == ScraperInit /\ OverlayBegins({})

\* the page as the call finds it after a wait
SetPage(m) ==
    /\ scrollHeight' = m.height
    /\ button' = m.control
    /\ grown' = m.grown

\* the call rejects with the error e
Throw(e) ==
    /\ pc' = "threw"
    /\ error' = e

\* faulty variant: a call that captures what is rendered before it scrolls
StartCapturing(p) ==
    /\ pc \in Ended
    /\ platform' = p
    /\ isCapturing' = TRUE
    /\ LET acc == captureVisibleMessages(
                      [msgs |-> <<>>, seen |-> {}, threw |-> FALSE],
                      findMessageElements(p, host, Document(host, loaded)), p)
       IN  /\ capturedMessages' = acc.msgs
           /\ seenMessageHashes' = acc.seen
    /\ scrollAttempts' = 0
    /\ iteration' = 0
    /\ stableCount' = 0
    /\ previousScrollHeight' = -1
    /\ loadMoreClicked' = FALSE
    /\ totalScrolled' = 0
    /\ previousMessageCount' = 0
    /\ sweepStable' = 0
    /\ result' = <<>>
    /\ stopPhase' = "none"
    /\ clicked' = FALSE
    /\ loadedAtStart' = loaded
    /\ captured' = FALSE
    /\ quietIterations' = 0
    /\ UNCHANGED <<host, scrollHeight, button, grown, loaded, probe, answer, OverlayState>>
    /\ IF findChatContainerThrows(p)
       THEN /\ Throw("SyntaxError") /\ scrolled' = FALSE
            /\ UNCHANGED scrollTop
            /\ progressLog' = << Event("initializing", Ratio(0, 1), -1) >>
       ELSE IF ~findChatContainer(p, host)
       THEN /\ Throw("Could not locate chat container")
            /\ scrolled' = FALSE /\ UNCHANGED scrollTop
            /\ progressLog' = << Event("initializing", Ratio(0, 1), -1) >>
       ELSE /\ scrollTop' = 0
            /\ scrolled' = TRUE
            /\ pc' = "p1_wait300"
            /\ error' = "none"
            /\ progressLog' = << Event("initializing", Ratio(0, 1), -1),
                                 Event("scrolling", Ratio(2, 1), -1) >>

\* captureFullHistory up to the first wait of scrollToAbsoluteTop
Start(p) ==
    /\ pc \in Ended
    /\ platform' = p
    /\ isCapturing' = TRUE
    /\ capturedMessages' = <<>>
    /\ seenMessageHashes' = {}
    /\ scrollAttempts' = 0
    /\ iteration' = 0
    /\ stableCount' = 0
    /\ previousScrollHeight' = -1
    /\ loadMoreClicked' = FALSE
    /\ totalScrolled' = 0
    /\ previousMessageCount' = 0
    /\ sweepStable' = 0
    /\ result' = <<>>
    /\ stopPhase' = "none"
    /\ clicked' = FALSE
    /\ loadedAtStart' = loaded
    /\ captured' = FALSE
    /\ quietIterations' = 0
    /\ UNCHANGED <<host, scrollHeight, button, grown, loaded, probe, answer, OverlayState>>
    /\ IF findChatContainerThrows(p)
       THEN /\ Throw("SyntaxError") /\ scrolled' = FALSE
            /\ UNCHANGED scrollTop
            /\ progressLog' = << Event("initializing", Ratio(0, 1), -1) >>
       ELSE IF ~findChatContainer(p, host)
       THEN /\ Throw("Could not locate chat container")
            /\ scrolled' = FALSE /\ UNCHANGED scrollTop
            /\ progressLog' = << Event("initializing", Ratio(0, 1), -1) >>
       ELSE /\ scrollTop' = 0
            /\ scrolled' = TRUE
            /\ pc' = "p1_wait300"
            /\ error' = "none"
            /\ progressLog' = << Event("initializing", Ratio(0, 1), -1),
                                 Event("scrolling", Ratio(2, 1), -1) >>

\* stop()
Stop ==
    /\ pc \in P1Waits \cup P2Waits \cup Ended
    /\ isCapturing' = FALSE
    /\ stopPhase' = IF stopPhase # "none" THEN stopPhase
                    ELSE IF pc \in P1Waits THEN "phase1"
                    ELSE IF pc \in P2Waits THEN "phase2"
                    ELSE "none"
    /\ UNCHANGED <<capturedMessages, seenMessageHashes, scrollAttempts, pc,
                   platform, iteration, stableCount, previousScrollHeight,
                   loadMoreClicked, totalScrolled, previousMessageCount,
                   sweepStable, result, error, host, scrollHeight, scrollTop,
                   button, grown, clicked, scrolled, captured, loaded,
                   progressLog, loadedAtStart, probe, answer, quietIterations, OverlayState>>

\* scrollToAbsoluteTop returns; scrollAndCaptureAll up to its first wait
EnterPhase2 ==
    /\ iteration' = 0
    /\ stableCount' = 0
    /\ previousScrollHeight' = -1
    /\ loadMoreClicked' = FALSE
    /\ scrollTop' = 0
    /\ pc' = "p2_wait500"
    /\ quietIterations' = 0

\* faulty variant: the loop test without the iteration cap
P1ContinueUncapped == isCapturing

\* the test of scrollToAbsoluteTop's while loop
P1Continue == iteration < maxScrollAttempts /\ isCapturing

\* end of the initial wait(300)
P1Begin ==
    /\ pc = "p1_wait300"
    /\ \E m \in PageMoves(host, scrollHeight, scrollTop, button, grown) :
         SetPage(m) /\ scrollTop' = m.top
    /\ pc' = "p1_loop"
    /\ UNCHANGED <<capturedMessages, isCapturing, seenMessageHashes,
                   scrollAttempts, platform, iteration, stableCount,
                   previousScrollHeight, loadMoreClicked, totalScrolled,
                   previousMessageCount, sweepStable, result, error, host,
                   stopPhase, clicked, scrolled, captured, loaded,
                   progressLog, loadedAtStart, probe, answer, quietIterations, OverlayState>>

\* the loop test and the first half of an iteration, up to the wait
P1Iterate ==
    /\ pc = "p1_loop"
    /\ IF P1Continue
       THEN /\ iteration' = iteration + 1
            /\ scrollAttempts' = iteration + 1
            /\ IF tryClickLoadMoreThrows(platform)
               THEN /\ Throw("SyntaxError")
                    /\ UNCHANGED <<loadMoreClicked, clicked, scrollTop,
                                   scrollHeight, button, loaded,
                                   quietIterations>>
               ELSE /\ loadMoreClicked' = tryClickLoadMore(platform, button)
                    /\ clicked' = (clicked \/ loadMoreClicked')
                    /\ quietIterations' =
                         IF loadMoreClicked' THEN 0
                         ELSE IF quietIterations < 5 THEN quietIterations + 1
                         ELSE 5
                    /\ IF loadMoreClicked'
                       THEN LET after == PageAfterClick(host, scrollHeight,
                                                        button, loaded)
                            IN  /\ scrollHeight' = after.height
                                /\ button' = after.control
                                /\ loaded' = after.loaded
                       ELSE UNCHANGED <<scrollHeight, button, loaded>>
                    /\ scrollTop' = 0
                    /\ pc' = "p1_wait"
                    /\ UNCHANGED error
            /\ UNCHANGED <<stableCount, previousScrollHeight, progressLog>>
       ELSE /\ EnterPhase2
            /\ progressLog' = Append(progressLog,
                                     Event("extracting", Ratio(50, 1), -1))
            /\ UNCHANGED <<scrollAttempts, clicked, error,
                           scrollHeight, button, loaded>>
    /\ UNCHANGED <<capturedMessages, isCapturing, seenMessageHashes,
                   platform,
                   totalScrolled, previousMessageCount, sweepStable, result,
                   host, grown, stopPhase, scrolled, captured, loadedAtStart,
                   probe, answer, OverlayState>>

\* faulty variant: a counter that does not mind the click
P1StableDespiteClick(m) ==
    IF m.height = previousScrollHeight /\ m.top <= 5
    THEN stableCount + 1
    ELSE 0

\* stableCount after an iteration observed the page m
P1Stable(m) ==
    IF m.height = previousScrollHeight /\ m.top <= 5 /\ ~loadMoreClicked
    THEN stableCount + 1
    ELSE 0

\* faulty variant: the early exit after two stable iterations
P1BreakEarly(m) ==
    \/ P1Stable(m) >= 5
    \/ P1Stable(m) >= 2 /\ ~hasLoadMoreButton(platform, m.control)

\* TRUE iff the iteration that observed m leaves the loop by a break
P1Break(m) ==
    \/ P1Stable(m) >= 5
    \/ P1Stable(m) >= 3 /\ ~hasLoadMoreButton(platform, m.control)

\* faulty variant: a progress update in every iteration
P1ReportsAlways(i) == TRUE

\* iteration % 10 === 0
P1Reports(i) == i % 10 = 0

\* the log after the progress update of iteration i, if it is due
P1Reported(log, i) ==
    IF P1Reports(i)
    THEN Append(log, Event("scrolling", P1Progress(i), -1))
    ELSE log

\* end of wait(1200 / 400): the second half of an iteration
P1Observe ==
    /\ pc = "p1_wait"
    /\ \E m \in PageMoves(host, scrollHeight, scrollTop, button, grown) :
         /\ SetPage(m)
         /\ IF P1Break(m)
            THEN /\ EnterPhase2
                 /\ progressLog' =
                      Append(P1Reported(progressLog, iteration),
                             Event("extracting", Ratio(50, 1), -1))
            ELSE /\ stableCount' = P1Stable(m)
                 /\ previousScrollHeight' = m.height
                 /\ scrollTop' = m.top
                 /\ pc' = "p1_loop"
                 /\ progressLog' = P1Reported(progressLog, iteration)
                 /\ UNCHANGED <<iteration, loadMoreClicked, quietIterations>>
    /\ UNCHANGED <<capturedMessages, isCapturing, seenMessageHashes,
                   scrollAttempts, platform,
                   totalScrolled, previousMessageCount, sweepStable, result,
                   error, host, stopPhase, clicked, scrolled, captured,
                   loaded, loadedAtStart, probe, answer, OverlayState>>

\* Math.max(200, scrollable.clientHeight * 0.6)
scrollStep(h) ==
    IF (h.clientHeight * 6) \div 10 > 200
    THEN (h.clientHeight * 6) \div 10 ELSE 200

\* the session after a capture pass over the rendered rows
CapturePass(rendered) ==
    captureVisibleMessages(
        [msgs |-> capturedMessages, seen |-> seenMessageHashes,
         threw |-> FALSE],
        findMessageElements(platform, host, rendered), platform)

SetSession(acc) ==
    /\ capturedMessages' = acc.msgs
    /\ seenMessageHashes' = acc.seen
    /\ captured' = TRUE

\* faulty variant: a cancelled call resolves with nothing
FinishDiscarding(msgs) ==
    /\ result' = IF stopPhase # "none" THEN <<>> ELSE processMessages(msgs)
    /\ isCapturing' = FALSE
    /\ pc' = "returned"

\* the end of captureFullHistory: finalize, clear the flag, return
Finish(msgs) ==
    /\ result' = processMessages(msgs)
    /\ isCapturing' = FALSE
    /\ pc' = "returned"

\* faulty variant: a sweep loop that never looks at the run flag
P2ContinueDeaf == TRUE

\* the test of scrollAndCaptureAll's while loop
P2Continue == isCapturing

\* scrollPosition >= scrollable.scrollHeight - 20
AtBottom(h, height, top) == top + h.clientHeight >= height - 20

\* end of wait(500): the initial capture pass
P2Begin ==
    /\ pc = "p2_wait500"
    /\ \E m \in PageMoves(host, scrollHeight, scrollTop, button, grown),
          r \in Renderings(host, loaded) :
         /\ SetPage(m)
         /\ scrollTop' = m.top
         /\ SetSession(CapturePass(r))
         /\ IF CapturePass(r).threw
            THEN Throw("SyntaxError")
            ELSE pc' = "p2_loop" /\ UNCHANGED error
    /\ totalScrolled' = 0
    /\ previousMessageCount' = 0
    /\ sweepStable' = 0
    /\ UNCHANGED <<isCapturing, scrollAttempts, platform, iteration,
                   stableCount, previousScrollHeight, loadMoreClicked,
                   result, host, stopPhase, clicked, scrolled, loaded,
                   progressLog, loadedAtStart, probe, answer, quietIterations, OverlayState>>

\* the loop test, then either the scroll forward or the return
P2Sweep ==
    /\ pc = "p2_loop"
    /\ IF P2Continue
       THEN /\ totalScrolled < MaxSweeps * scrollStep(host)
            /\ scrollTop' = Clamp(host, scrollHeight,
                                  scrollTop + scrollStep(host))
            /\ totalScrolled' = totalScrolled + scrollStep(host)
            /\ pc' = "p2_wait250"
            /\ UNCHANGED <<result, isCapturing, progressLog>>
       ELSE /\ Finish(capturedMessages)
            /\ progressLog' = Completed(progressLog, result')
            /\ UNCHANGED <<scrollTop, totalScrolled>>
    /\ UNCHANGED <<capturedMessages, seenMessageHashes, scrollAttempts,
                   platform, iteration, stableCount, previousScrollHeight,
                   loadMoreClicked, previousMessageCount, sweepStable, error,
                   host, scrollHeight, button, grown, stopPhase, clicked,
                   scrolled, captured, loaded, loadedAtStart, probe, answer, quietIterations, OverlayState>>

\* end of wait(250): the synthetic scroll events
P2Settle ==
    /\ pc = "p2_wait250"
    /\ \E m \in PageMoves(host, scrollHeight, scrollTop, button, grown) :
         SetPage(m) /\ scrollTop' = m.top
    /\ pc' = "p2_wait100"
    /\ UNCHANGED <<capturedMessages, isCapturing, seenMessageHashes,
                   scrollAttempts, platform, iteration, stableCount,
                   previousScrollHeight, loadMoreClicked, totalScrolled,
                   previousMessageCount, sweepStable, result, error, host,
                   stopPhase, clicked, scrolled, captured, loaded,
                   progressLog, loadedAtStart, probe, answer, quietIterations, OverlayState>>

\* sweepStable after a pass that left n messages, not at the bottom
P2Stable(n) == IF n = previousMessageCount THEN sweepStable + 1 ELSE 0

\* the break of the stability check, after a pass that left n messages on
\* the page m
P2StableExit(m, n) ==
    P2Stable(n) >= maxStable /\ AtBottom(host, m.height, m.top)

\* the log after the progress update of a sweep iteration that observed
\* the page m and left the session acc
P2Reported(log, m, acc) ==
    Append(log, Event("extracting", P2Progress(totalScrolled, m.height),
                      Len(acc.msgs)))

\* end of wait(100): the capture pass of an iteration and its exit tests
P2Capture ==
    /\ pc = "p2_wait100"
    /\ \E m \in PageMoves(host, scrollHeight, scrollTop, button, grown),
          r \in Renderings(host, loaded) :
         /\ SetPage(m)
         /\ scrollTop' = m.top
         /\ SetSession(CapturePass(r))
         /\ IF CapturePass(r).threw
            THEN /\ Throw("SyntaxError")
                 /\ UNCHANGED <<previousMessageCount, sweepStable, result,
                                isCapturing, progressLog>>
            ELSE IF AtBottom(host, m.height, m.top)
            THEN /\ pc' = "p2_bottom500"
                 /\ progressLog' = P2Reported(progressLog, m, CapturePass(r))
                 /\ UNCHANGED <<error, previousMessageCount, sweepStable,
                                result, isCapturing>>
            ELSE IF P2StableExit(m, Len(CapturePass(r).msgs))
            THEN /\ Finish(CapturePass(r).msgs)
                 /\ progressLog' =
                      Completed(P2Reported(progressLog, m, CapturePass(r)),
                                result')
                 /\ sweepStable' = P2Stable(Len(CapturePass(r).msgs))
                 /\ UNCHANGED <<error, previousMessageCount>>
            ELSE /\ sweepStable' = P2Stable(Len(CapturePass(r).msgs))
                 /\ previousMessageCount' = Len(CapturePass(r).msgs)
                 /\ pc' = "p2_loop"
                 /\ progressLog' = P2Reported(progressLog, m, CapturePass(r))
                 /\ UNCHANGED <<error, result, isCapturing>>
    /\ UNCHANGED <<scrollAttempts, platform, iteration,
                   stableCount, previousScrollHeight, loadMoreClicked,
                   totalScrolled, host, stopPhase, clicked, scrolled, loaded,
                   loadedAtStart, probe, answer, quietIterations, OverlayState>>

\* at the bottom, end of wait(500): the final pass and the 100px nudge
P2Bottom ==
    /\ pc = "p2_bottom500"
    /\ \E m \in PageMoves(host, scrollHeight, scrollTop, button, grown),
          r \in Renderings(host, loaded) :
         /\ SetPage(m)
         /\ SetSession(CapturePass(r))
         /\ IF CapturePass(r).threw
            THEN Throw("SyntaxError") /\ scrollTop' = m.top
            ELSE /\ scrollTop' = Clamp(host, m.height, m.top + 100)
                 /\ pc' = "p2_bottom300"
                 /\ UNCHANGED error
    /\ UNCHANGED <<isCapturing, scrollAttempts, platform, iteration,
                   stableCount, previousScrollHeight, loadMoreClicked,
                   totalScrolled, previousMessageCount, sweepStable, result,
                   host, stopPhase, clicked, scrolled, loaded, progressLog,
                   loadedAtStart, probe, answer, quietIterations, OverlayState>>

\* at the bottom, end of wait(300): the last pass, the break and the return
P2Last ==
    /\ pc = "p2_bottom300"
    /\ \E m \in PageMoves(host, scrollHeight, scrollTop, button, grown),
          r \in Renderings(host, loaded) :
         /\ SetPage(m)
         /\ scrollTop' = m.top
         /\ SetSession(CapturePass(r))
         /\ IF CapturePass(r).threw
            THEN /\ Throw("SyntaxError")
                 /\ UNCHANGED <<result, isCapturing, progressLog>>
            ELSE /\ Finish(CapturePass(r).msgs)
                 /\ progressLog' = Completed(progressLog, result')
                 /\ UNCHANGED error
    /\ UNCHANGED <<scrollAttempts, platform, iteration, stableCount,
                   previousScrollHeight, loadMoreClicked, totalScrolled,
                   previousMessageCount, sweepStable, host, stopPhase,
                   clicked, scrolled, loaded, loadedAtStart, probe, answer, quietIterations, OverlayState>>

Next ==
    \/ \E p \in host.profiles : Start(p)
    \/ Stop
    \/ P1Begin
    \/ P1Iterate
    \/ P1Observe
    \/ P2Begin
    \/ P2Sweep
    \/ P2Settle
    \/ P2Capture
    \/ P2Bottom
    \/ P2Last

Spec == Init /\ [][Next]_vars

-----------------------------------------------------------------------------
(* Direct calls of the engine's helpers.  ChatScraper is exported to the  *)
(* window, so its methods can be called in any session state.             *)

\* the session state of the engine
Session ==
    [msgs |-> capturedMessages, seen |-> seenMessageHashes,
     attempts |-> scrollAttempts, running |-> isCapturing]

FreshSession == [msgs |-> <<>>, seen |-> {}, attempts |-> 0, running |-> FALSE]

Sessions ==
    [msgs : { <<>>, <<extractMessage(RowB, NoOverrides, 0)>> },
     seen : { {}, {hashElement(RowB)} },
     attempts : {0, 7},
     running : BOOLEAN]

\* how often a helper is called on the same argument
MaxCalls == 2

HashProbes ==
    { [fn |-> "hashElement", el |-> e] :
        e \in { RowA1, RowA2, RowB, RowHollow, RowBlank, RowAa, RowBB,
                LoadedRow(1), RowLong, RowLongPadded, RowLongClass,
                RowTwoIds, RowHexId } }

\* the results a selector can have on a page
Results ==
    { Invalid, Match(TRUE, <<>>), Match(TRUE, <<"e1">>),
      Match(TRUE, <<"e2", "e1">>) }

\* no chatMessage selector, "a", "a, b", "b,a" and "x,b"
Selectors ==
    { <<>>, <<97>>, <<97, 44, 32, 98>>, <<98, 44, 97>>, <<120, 44, 98>> }

LocatorProbes ==
    { [fn |-> "findMessageElements", selector |-> sel,
       matches |-> (<<97>> :> a) @@ (<<98>> :> b), generic |-> <<g1, g2>>] :
        sel \in Selectors, a \in Results, b \in Results,
        g1 \in Results \ {Invalid}, g2 \in Results \ {Invalid} }

\* a container with two children, one heading a chain five levels deep
TreeNodes ==
    { <<1>>, <<1, 1>>, <<1, 1, 1>>, <<1, 1, 1, 1>>, <<1, 1, 1, 1, 1>>,
      <<2>>, <<2, 1>> }

DomProbes ==
    { [fn |-> "findScrollableElement", dom |-> Dom(TreeNodes, sc, c, <<x, y>>)] :
        sc \in SUBSET TreeNodes, c \in BOOLEAN, x \in BOOLEAN,
        y \in BOOLEAN }

\* pages with up to two load-more controls of any kind and state
ClickProbes ==
    LET controls == { Control(by, v, d) :
                        by \in {"platform", "generic", "text", "othertext"},
                        v \in BOOLEAN, d \in BOOLEAN }
    IN  { [fn |-> "tryClickLoadMore",
           platform |-> Profile("valid", "valid", "valid", b), page |-> pg] :
            b \in SelectorStates,
            pg \in UNION { [1..n -> controls] : n \in 0..2 } }

\* elements whose content nodes are absent, blank or filled: the node of
\* the platform selector is absent, " " or "p", the nodes of the generic
\* selectors are none, one empty node, or " " and "g", the element's own
\* text is "" or " o "
ContentProbes ==
    { [fn |-> "extractContent",
       platform |-> Profile("valid", "valid", c, "valid"),
       el |-> Element(<<>>, <<109>>, own, pm, gen, own, "user")] :
        c \in SelectorStates,
        pm \in { <<>>, <<<<32>>>>, <<<<112>>>> },
        gen \in { <<>>, <<<<>>>>, <<<<32>>, <<103>>>> },
        own \in { <<>>, <<32, 111, 32>> } }

\* the longest string hashString is called on
MaxStrLen == 6

\* strings of "a", "z" and a high surrogate
StringProbes ==
    { [fn |-> "hashString", str |-> s] :
        s \in UNION { [1..n -> {97, 122, 55357}] : n \in 0..MaxStrLen } }

HelperInit ==
    /\ \E s \in Sessions :
         /\ capturedMessages = s.msgs
         /\ seenMessageHashes = s.seen
         /\ scrollAttempts = s.attempts
         /\ isCapturing = s.running
    /\ probe \in HashProbes \cup LocatorProbes \cup DomProbes
                 \cup StringProbes \cup ClickProbes \cup ContentProbes
    /\ answer = [fn |-> "none"]
    /\ pc = "idle"
    /\ platform = NoOverrides
    /\ iteration = 0
    /\ stableCount = 0
    /\ previousScrollHeight = -1
    /\ loadMoreClicked = FALSE
    /\ totalScrolled = 0
    /\ previousMessageCount = 0
    /\ sweepStable = 0
    /\ result = <<>>
    /\ error = "none"
    /\ host = BareHost
    /\ scrollHeight = 400
    /\ scrollTop = 0
    /\ button = NoControl
    /\ grown = 0
    /\ loaded = 0
    /\ progressLog = <<>>
    /\ loadedAtStart = 0
    /\ stopPhase = "none"
    /\ clicked = FALSE
    /\ scrolled = FALSE
    /\ captured = FALSE
    /\ quietIterations = 0
    /\ OverlayBegins({})

\* what a helper call leaves alone, the session apart
Surroundings ==
    <<pc, platform, iteration, stableCount, previousScrollHeight,
      loadMoreClicked, totalScrolled, previousMessageCount, sweepStable,
      result, error, host, scrollHeight, scrollTop, button, grown, loaded,
      progressLog, loadedAtStart, stopPhase, clicked, scrolled, captured,
      probe, quietIterations, OverlayState>>

\* ChatScraper.hashElement(el)
CallHashElement ==
    /\ probe.fn = "hashElement"
    /\ IF answer.fn = "none" THEN TRUE ELSE answer.calls < MaxCalls
    /\ LET ret == hashElementCall(probe.el, Session)
       IN  /\ answer' = [fn |-> "hashElement", value |-> ret.value,
                         first |-> IF answer.fn = "none" THEN ret.value
                                   ELSE answer.first,
                         calls |-> IF answer.fn = "none" THEN 1
                                   ELSE answer.calls + 1,
                         before |-> Session]
           /\ capturedMessages' = ret.session.msgs
           /\ seenMessageHashes' = ret.session.seen
           /\ scrollAttempts' = ret.session.attempts
           /\ isCapturing' = ret.session.running
    /\ UNCHANGED Surroundings

\* ChatScraper.findMessageElements(platform)
CallFindMessageElements ==
    /\ probe.fn = "findMessageElements"
    /\ answer.fn = "none"
    /\ answer' = [fn |-> "findMessageElements",
                  value |-> findMessageElementsOn(probe.selector,
                                                  probe.matches,
                                                  probe.generic)]
    /\ UNCHANGED <<Surroundings, capturedMessages, seenMessageHashes,
                   scrollAttempts, isCapturing>>

\* ChatScraper.findScrollableElement(container)
CallFindScrollableElement ==
    /\ probe.fn = "findScrollableElement"
    /\ answer.fn = "none"
    /\ answer' = [fn |-> "findScrollableElement",
                  value |-> findScrollableElement(probe.dom)]
    /\ UNCHANGED <<Surroundings, capturedMessages, seenMessageHashes,
                   scrollAttempts, isCapturing>>

\* ChatScraper.hashString(str)
CallHashString ==
    /\ probe.fn = "hashString"
    /\ answer.fn = "none"
    /\ answer' = [fn |-> "hashString", value |-> hashString(probe.str)]
    /\ UNCHANGED <<Surroundings, capturedMessages, seenMessageHashes,
                   scrollAttempts, isCapturing>>

\* ChatScraper.tryClickLoadMore(platform)
CallTryClickLoadMore ==
    /\ probe.fn = "tryClickLoadMore"
    /\ answer.fn = "none"
    /\ answer' =
         IF tryClickLoadMoreThrows(probe.platform)
         THEN [fn |-> "tryClickLoadMore", threw |-> TRUE, clicks |-> <<>>,
               returned |-> FALSE]
         ELSE LET ret == tryClickLoadMoreOn(probe.platform, probe.page)
              IN  [fn |-> "tryClickLoadMore", threw |-> FALSE,
                   clicks |-> ret.clicks, returned |-> ret.returned]
    /\ UNCHANGED <<Surroundings, capturedMessages, seenMessageHashes,
                   scrollAttempts, isCapturing>>

\* ChatScraper.extractContent(el, platform)
CallExtractContent ==
    /\ probe.fn = "extractContent"
    /\ answer.fn = "none"
    /\ answer' =
         IF extractContentThrows(probe.platform)
         THEN [fn |-> "extractContent", threw |-> TRUE, value |-> <<>>]
         ELSE [fn |-> "extractContent", threw |-> FALSE,
               value |-> extractContent(probe.el, probe.platform)]
    /\ UNCHANGED <<Surroundings, capturedMessages, seenMessageHashes,
                   scrollAttempts, isCapturing>>

HelperNext ==
    \/ CallHashElement
    \/ CallHashString
    \/ CallTryClickLoadMore
    \/ CallExtractContent
    \/ CallFindMessageElements
    \/ CallFindScrollableElement

HelperSpec == HelperInit /\ [][HelperNext]_vars

\* a second captureFullHistory(p) begun after stop() while the stopped call
\* is still suspended in a wait, up to its own first wait: it re-arms the
\* run flag and resets the session; the locals of the suspended call are
\* not touched, and the model goes on following the suspended call
StartOverlapping(p) ==
    /\ pc \in P1Waits \cup P2Waits
    /\ stopPhase # "none"
    /\ ~isCapturing
    /\ isCapturing' = TRUE
    /\ capturedMessages' = <<>>
    /\ seenMessageHashes' = {}
    /\ scrollAttempts' = 0
    /\ IF ~findChatContainerThrows(p) /\ findChatContainer(p, host)
       THEN scrollTop' = 0
       ELSE UNCHANGED scrollTop
    /\ UNCHANGED <<pc, platform, iteration, stableCount, previousScrollHeight,
                   loadMoreClicked, totalScrolled, previousMessageCount,
                   sweepStable, result, error, host, scrollHeight, button,
                   grown, stopPhase, clicked, scrolled, captured, loaded,
                   progressLog, loadedAtStart, probe, answer, quietIterations, OverlayState>>

\* the pages on which overlapping calls are followed
OverlapInit == Init /\ host \in {StaticHost, GrowingHost}

OverlapNext ==
    \/ Next
    \/ \E p \in host.profiles : StartOverlapping(p)

\* the engine with a caller that does not wait for a call to end before it
\* begins the next
OverlapSpec == OverlapInit /\ [][OverlapNext]_vars

-----------------------------------------------------------------------------
(* Overlay *)

\* how many overlay elements show() creates
MaxOverlays == 3
\* how many removal callbacks of hide() are pending at a time
MaxTimers == 2
\* how many startCapture calls are followed at a time
MaxCaptures == 2

\* the phases startCapture awaits, in order, on a platform with the
\* features f; the errors phase awaits no timer and no scraper and runs
\* with the end of the extract phase
PhasesOf(f) ==
    <<"init", "scan", "extract", "files">>
        \o (IF "artifacts" \in f THEN <<"artifacts">> ELSE <<>>)
        \o (IF "diffs" \in f THEN <<"diffs">> ELSE <<>>)
        \o (IF "terminal" \in f THEN <<"terminal">> ELSE <<>>)
        \o <<"compile", "complete">>

\* the phases whose await is on a scraper, which may reject
Fallible == {"extract", "files", "artifacts", "diffs", "terminal"}

\* the sequence without its i-th entry
Without(seq, i) == SubSeq(seq, 1, i - 1) \o SubSeq(seq, i + 1, Len(seq))

\* a click on the import button: Overlay.show(platform)
Show ==
    /\ Overlay.overlay < MaxOverlays
    /\ IF Overlay.isVisible
       THEN UNCHANGED <<Overlay, elements>>
       ELSE /\ Overlay' = [Overlay EXCEPT !.overlay = @ + 1,
                                          !.isVisible = TRUE]
            /\ elements' = [elements EXCEPT
                              !.attached = @ \cup {Overlay.overlay + 1}]
    /\ UNCHANGED <<timers, captures, refused, ScraperState>>

\* a click on the close button or on the backdrop of the overlay: hide()
\* up to its setTimeout
Hide ==
    /\ Overlay.overlay \in elements.attached
    /\ timers < MaxTimers
    /\ IF ~Overlay.isVisible \/ Overlay.isCapturing
       THEN UNCHANGED timers
       ELSE timers' = timers + 1
    /\ UNCHANGED <<Overlay, elements, captures, refused, ScraperState>>

\* the callback hide() has set for 300ms later
RemovalFires ==
    /\ timers > 0
    /\ timers' = timers - 1
    /\ elements' = [elements EXCEPT !.attached = @ \ {Overlay.overlay}]
    /\ Overlay' = [Overlay EXCEPT !.isVisible = FALSE]
    /\ UNCHANGED <<captures, refused, ScraperState>>

\* faulty variant: startCapture without its first line
ClickCaptureUnguarded ==
    /\ Overlay.overlay \in elements.attached \ elements.disabled
    /\ Len(captures) < MaxCaptures
    /\ Overlay' = [Overlay EXCEPT !.isCapturing = TRUE]
    /\ elements' = [elements EXCEPT !.disabled = @ \cup {Overlay.overlay}]
    /\ captures' = Append(captures, [pc |-> "init",
                                     captureBtn |-> Overlay.overlay])
    /\ UNCHANGED <<timers, refused, ScraperState>>

\* a click on the enabled capture button of the overlay: startCapture up to
\* the wait of its init phase
ClickCapture ==
    /\ Overlay.overlay \in elements.attached \ elements.disabled
    /\ IF Overlay.isCapturing
       THEN /\ refused' = TRUE
            /\ UNCHANGED <<Overlay, elements, captures>>
       ELSE /\ Len(captures) < MaxCaptures
            /\ Overlay' = [Overlay EXCEPT !.isCapturing = TRUE]
            /\ elements' =
                 [elements EXCEPT !.disabled = @ \cup {Overlay.overlay}]
            /\ captures' = Append(captures, [pc |-> "init",
                                             captureBtn |-> Overlay.overlay])
            /\ UNCHANGED refused
    /\ UNCHANGED <<timers, ScraperState>>

\* the end of startCapture after its last phase
Succeed(i) ==
    /\ Overlay' = [Overlay EXCEPT !.capturedData = TRUE,
                                  !.isCapturing = FALSE]
    /\ elements' = [elements EXCEPT !.ready = @ \cup {Overlay.overlay}]
    /\ captures' = Without(captures, i)

\* the catch block of startCapture and the line after it
Fail(i) ==
    /\ Overlay' = [Overlay EXCEPT !.isCapturing = FALSE]
    /\ elements' = [elements EXCEPT !.disabled = @ \ {captures[i].captureBtn}]
    /\ captures' = Without(captures, i)

\* the await of the i-th suspended startCapture ends: the phase's promise
\* is fulfilled and the call runs on to its next await or to its end, or
\* the promise is rejected and the call runs its catch block
AwaitEnds(i) ==
    /\ i \in DOMAIN captures
    /\ LET phases == PhasesOf(elements.features)
           k == CHOOSE n \in DOMAIN phases : phases[n] = captures[i].pc
       IN  \/ /\ k < Len(phases)
              /\ captures' = [captures EXCEPT ![i].pc = phases[k + 1]]
              /\ UNCHANGED <<Overlay, elements>>
           \/ /\ k = Len(phases)
              /\ Succeed(i)
           \/ /\ captures[i].pc \in Fallible
              /\ Fail(i)
    /\ UNCHANGED <<timers, refused, ScraperState>>

OverlayInit ==
    /\ ScraperInit
    /\ host = BareHost
    /\ \E f \in SUBSET Features : OverlayBegins(f)

OverlayNext ==
    \/ Show
    \/ Hide
    \/ RemovalFires
    \/ ClickCapture
    \/ \E i \in 1..MaxCaptures : AwaitEnds(i)

\* the overlay under the clicks of a user and the ends of its awaits
OverlaySpec == OverlayInit /\ [][OverlayNext]_vars

\* every setTimeout of a wait() in scrollToAbsoluteTop fires, so a call
\* suspended in phase 1 is resumed
FairSpec ==
    /\ Spec
    /\ WF_vars(P1Begin) /\ WF_vars(P1Iterate) /\ WF_vars(P1Observe)

-----------------------------------------------------------------------------
(* Properties *)

Phase1 == {"p1_wait300", "p1_loop", "p1_wait"}

RECURSIVE LastIndexOf(_, _, _)
LastIndexOf(str, c, i) ==
    IF i = 0 THEN 0
    ELSE IF str[i] = c THEN i ELSE LastIndexOf(str, c, i - 1)

\* the fingerprint a message was captured under, read back from its id
FingerprintOf(msg) ==
    SubSeq(msg.id, Len(MsgPrefix) + 1,
           LastIndexOf(msg.id, Underscore, Len(msg.id)) - 1)

\* the position in the accumulator of the message with the given id
CapturedAt(id) ==
    CHOOSE i \in DOMAIN capturedMessages : capturedMessages[i].id = id

\* C1: phase 1 runs at most maxScrollAttempts iterations, whatever the page
\* does: the iteration count never exceeds the cap, and when the loop test
\* is reached with the cap used up the call leaves phase 1.
C1_Phase1Bounded ==
    /\ [](iteration <= maxScrollAttempts /\ scrollAttempts <= maxScrollAttempts)
    /\ [][pc = "p1_loop" /\ iteration >= maxScrollAttempts
            => pc' \notin Phase1]_vars

\* C1, as liveness under FairSpec: a call that is in phase 1 eventually is
\* not.
C1_Phase1Terminates == (pc \in Phase1) ~> (pc \notin Phase1)

\* phase 1 used all its iterations on a page that kept being clicked
C1_Witness ==
    /\ pc = "p2_wait500"
    /\ scrollAttempts = maxScrollAttempts
    /\ isCapturing
    /\ clicked

\* C2: once stop() has hit a call suspended in a wait, the call begins no
\* further iteration of the phase-1 loop nor of the phase-2 loop.
C2_NoIterationAfterStop ==
    [][stopPhase # "none" /\ pc \notin Ended
         => scrollAttempts' = scrollAttempts
            /\ totalScrolled' <= totalScrolled]_vars

\* a call stopped in the middle of the sweep has returned
C2_Witness ==
    /\ pc = "returned"
    /\ stopPhase = "phase2"
    /\ totalScrolled > 0
    /\ scrollTop < MaxTop(host, scrollHeight)

\* C3: a call cancelled during phase 2 does not throw, and returns the
\* finalized form of what it had accumulated.
C3_CancelledSweepReturns ==
    stopPhase = "phase2"
        => /\ pc # "threw"
           /\ pc = "returned" => result = processMessages(capturedMessages)

\* C4 as stated: a cancelled call does not hand captured messages back.
C4_CancelledReturnsNothing ==
    pc = "returned" /\ stopPhase # "none" => result = <<>>

\* C4, amended: a cancelled call that returns hands the finalized partial
\* capture back; its first captured message heads the result.
C4_CancelledReturnsPartial ==
    pc = "returned" /\ stopPhase # "none" /\ capturedMessages # <<>>
        => /\ result # <<>>
           /\ result[1].id = capturedMessages[1].id
           /\ result[1].content = capturedMessages[1].content

\* a call stopped during phase 1 returned the one row it still captured
C4_Witness ==
    /\ pc = "returned"
    /\ stopPhase = "phase1"
    /\ Len(result) >= 1

\* C5: whenever the call has ended, the run flag is cleared.
C5_FlagClearedAtEnd ==
    pc \in {"returned", "threw"} => ~isCapturing

\* the page offers no container to the profile in use
NoContainer ==
    \/ host.container = "none"
    \/ host.container = "platform" /\ platform.chatContainer # "valid"

\* C6: when no chat container can be located the call fails, having done
\* no scroll operation, no load-more click and no capture pass, with an
\* empty accumulator.
C6_FailsBeforeTouchingPage ==
    pc # "idle" /\ NoContainer
        => /\ pc = "threw"
           /\ error # "none"
           /\ ~scrolled /\ ~clicked /\ ~captured
           /\ capturedMessages = <<>>
           /\ seenMessageHashes = {}

\* a call failed for want of a container on a page an earlier call scrolled
C6_Witness ==
    /\ pc = "threw"
    /\ NoContainer
    /\ error = "Could not locate chat container"
    /\ host.container = "platform"

\* C7: container-not-found is the only failure the call propagates.
C7_OnlyContainerNotFound ==
    pc = "threw" => error = "Could not locate chat container"

\* C8: the messages of the accumulator have pairwise distinct fingerprints,
\* all of them in the seen-set; a step appends a message only under a
\* fingerprint that was not in the seen-set and is in it afterwards.
C8_OneMessagePerFingerprint ==
    /\ [](\A i, j \in DOMAIN capturedMessages :
            /\ FingerprintOf(capturedMessages[i]) \in seenMessageHashes
            /\ FingerprintOf(capturedMessages[i])
                 = FingerprintOf(capturedMessages[j]) => i = j)
    /\ [][\A i \in (Len(capturedMessages) + 1)..Len(capturedMessages') :
            /\ FingerprintOf(capturedMessages'[i]) \notin seenMessageHashes
            /\ FingerprintOf(capturedMessages'[i]) \in seenMessageHashes']_vars

\* three messages were captured and two more fingerprints seen without one
C8_Witness ==
    /\ Len(capturedMessages) = 3
    /\ Cardinality(seenMessageHashes) > 3

\* the content hashes of the accumulated messages
CapturedHashes ==
    { hashContent(capturedMessages[i].content) : i \in DOMAIN capturedMessages }

\* C9: the final output holds exactly one message per content hash of the
\* captured messages, namely the earliest captured one, and no two output
\* messages share a fingerprint.
C9_OnePerContentHash ==
    pc = "returned"
        => /\ \A h \in CapturedHashes :
                Cardinality({ k \in DOMAIN result :
                                hashContent(result[k].content) = h }) = 1
           /\ \A k \in DOMAIN result :
                /\ \E i \in DOMAIN capturedMessages :
                     capturedMessages[i].id = result[k].id
                /\ \A i \in DOMAIN capturedMessages :
                     hashContent(capturedMessages[i].content)
                        = hashContent(result[k].content)
                     => CapturedAt(result[k].id) <= i
           /\ \A k, l \in DOMAIN result :
                FingerprintOf(result[k]) = FingerprintOf(result[l]) => k = l

\* a remounted row was captured under two identifiers and collapsed
C9_Witness ==
    /\ pc = "returned"
    /\ Len(capturedMessages) = 3
    /\ Len(result) = 2
    /\ \E i, j \in DOMAIN capturedMessages :
         /\ i # j
         /\ capturedMessages[i].content = capturedMessages[j].content

\* C10: the message at position k of the output has order k, from zero.
C10_DenseOrder ==
    pc = "returned" => \A k \in DOMAIN result : result[k].order = k - 1

\* an output message was renumbered: it had another order when captured
C10_Witness ==
    /\ pc = "returned"
    /\ \E k \in DOMAIN result :
         capturedMessages[CapturedAt(result[k].id)].order # result[k].order

\* C11: the accumulator numbers its messages in capture sequence, and the
\* final output is a subsequence of it: of two output messages the one with
\* the smaller final order was captured earlier.
C11_OutputFollowsCapture ==
    /\ \A i \in DOMAIN capturedMessages : capturedMessages[i].order = i - 1
    /\ pc = "returned"
         => \A k, l \in DOMAIN result :
              result[k].order < result[l].order
                 => CapturedAt(result[k].id) < CapturedAt(result[l].id)

\* the second output message was captured third: one between was dropped
C11_Witness ==
    /\ pc = "returned"
    /\ Len(result) >= 2
    /\ CapturedAt(result[2].id) = 3

\* C12: no message whose content is empty after trimming is ever in the
\* accumulator or in the final output.
C12_NoEmptyContent ==
    /\ \A i \in DOMAIN capturedMessages :
         Len(Trim(capturedMessages[i].content)) > 0
    /\ \A k \in DOMAIN result : Len(Trim(result[k].content)) > 0

\* a row of white space was seen by a pass that captured another row
C12_Witness ==
    /\ hashElement(RowBlank) \in seenMessageHashes
    /\ Len(Trim(extractContent(RowBlank, platform))) = 0
    /\ capturedMessages # <<>>
    /\ pc = "returned"

\* the fingerprints of the rows of a document
Fingerprints(doc) == { hashElement(doc[i]) : i \in DOMAIN doc }

\* a page that keeps N rows with pairwise distinct fingerprints and pairwise
\* distinct non-empty contents rendered, has no load-more control and never
\* changes its scroll height
Pristine(h, p) ==
    /\ ~h.virtual /\ ~h.lazy /\ h.metrics = "quiet" /\ h.offers = 0
    /\ h.controls = {NoControl}
    /\ \A i, j \in DOMAIN h.doc :
         i # j => /\ hashElement(h.doc[i]) # hashElement(h.doc[j])
                  /\ extractContent(h.doc[i], p) # extractContent(h.doc[j], p)
    /\ \A i \in DOMAIN h.doc : Len(extractContent(h.doc[i], p)) > 0

\* C13: a capture of such a page returns exactly its N rows, one message
\* per row, in document order with order 0..N-1.
C13_AllRowsReturned ==
    pc = "returned" /\ Pristine(host, platform)
        => /\ Len(result) = Len(host.doc)
           /\ \A k \in DOMAIN result :
                /\ result[k].content = extractContent(host.doc[k], platform)
                /\ result[k].order = k - 1

\* a quiet page that shows no load-more control to a call that clicked none:
\* its scroll height does not change and its position stays at the top
\* throughout phase 1
StillPage == host.metrics = "quiet" /\ button = NoControl /\ ~clicked

\* C14 as stated: on such a page an uncancelled call leaves phase 1 after
\* exactly 3 loop iterations, in the last of which the stable-counter goes
\* from 2 to 3.
C14_ThreeIterations ==
    [][(pc \in Phase1 /\ pc' = "p2_wait500" /\ StillPage /\ isCapturing)
         => (scrollAttempts = 3 /\ stableCount = 2)]_vars

\* C14, amended: on such a page an uncancelled call leaves phase 1 by the
\* early exit of its 4th loop iteration, in which the stable-counter goes
\* from 2 to 3 (the first iteration has no earlier height to compare with).
C14_FourIterations ==
    [][(pc \in Phase1 /\ pc' = "p2_wait500" /\ StillPage /\ isCapturing)
         => (pc = "p1_wait" /\ scrollAttempts = 4 /\ stableCount = 2)]_vars

\* phase 1 was left on the page that never changes
C14_Witness ==
    /\ pc = "p2_wait500"
    /\ host = StaticHost
    /\ scrollAttempts = 4
    /\ isCapturing

\* C15: on a page that offers its load-more control for ClicksOffered
\* clicks, each bringing RowsPerClick rows, an uncancelled call leaves
\* phase 1 by a stability break, below the iteration cap, when all offered
\* clicks are done (ClicksOffered clicks by a call that found the page
\* fresh), and ends phase 2 with the original rows plus ClicksOffered *
\* RowsPerClick messages.
C15_LoadsAllThenSettles ==
    /\ [][(pc \in Phase1 /\ pc' = "p2_wait500" /\ host.offers > 0
              /\ isCapturing)
           => /\ pc = "p1_wait"
              /\ scrollAttempts < maxScrollAttempts
              /\ loaded = host.offers
              /\ loadedAtStart = 0 => loaded - loadedAtStart = ClicksOffered
              /\ button = NoControl]_vars
    /\ [](pc = "returned" /\ host.offers > 0 /\ stopPhase = "none"
            => Len(capturedMessages)
                 = Len(host.doc) + ClicksOffered * RowsPerClick)

\* a call that found the page fresh returned after all the clicks
C15_Witness ==
    /\ pc = "returned"
    /\ host = LoadMoreHost
    /\ stopPhase = "none"
    /\ loadedAtStart = 0
    /\ loaded = ClicksOffered
    /\ Len(capturedMessages) = Len(host.doc) + ClicksOffered * RowsPerClick

\* C16: within a phase the progress values of successive onProgress calls
\* never decrease.
C16_ProgressMonotone ==
    \A i, j \in DOMAIN progressLog :
        i < j /\ progressLog[i].phase = progressLog[j].phase
            => AtMost(progressLog[i].progress, progressLog[j].progress)

\* the place of a phase in the order of captureFullHistory
PhaseRank(phase) ==
    CASE phase = "initializing" -> 0
      [] phase = "scrolling" -> 1
      [] phase = "extracting" -> 2
      [] phase = "finalizing" -> 3
      [] phase = "complete" -> 4

\* how many events of a phase the callback has seen
Reports(phase) ==
    Cardinality({ i \in DOMAIN progressLog : progressLog[i].phase = phase })

\* the phase-1 iterations that have passed their progress update
Phase1Done == IF pc = "p1_wait" THEN scrollAttempts - 1 ELSE scrollAttempts

\* the phase-2 iterations that have passed their progress update
Phase2Done ==
    IF pc \in {"p2_wait250", "p2_wait100"}
    THEN totalScrolled \div scrollStep(host) - 1
    ELSE totalScrolled \div scrollStep(host)

\* C17: the callback never sees an earlier phase after a later one; phase 1
\* reports once at its start and then exactly in every 10th iteration,
\* phase 2 once at its start and then in every iteration; a call that has
\* returned has reported all five phases, 'complete' once and last, with
\* progress 100 and the length of the returned sequence as count.
C17_ProgressMilestones ==
    /\ \A i, j \in DOMAIN progressLog :
         i < j => PhaseRank(progressLog[i].phase)
                    <= PhaseRank(progressLog[j].phase)
    /\ pc \notin {"idle", "threw"}
         => Reports("scrolling") = 1 + Phase1Done \div 10
    /\ pc \in Phase1 => Reports("extracting") = 0
    /\ pc \in P2Waits \cup {"p2_loop", "returned"}
         => Reports("extracting") = 1 + Phase2Done
    /\ pc # "returned" => Reports("complete") = 0
    /\ pc = "returned"
         => /\ Reports("initializing") = 1
            /\ Reports("finalizing") = 1
            /\ Reports("complete") = 1
            /\ progressLog[Len(progressLog)]
                 = Event("complete", Ratio(100, 1), Len(result))

\* a call returned after ten or more phase-1 iterations and a sweep
C17_Witness ==
    /\ pc = "returned"
    /\ stopPhase = "none"
    /\ Reports("scrolling") >= 2
    /\ Reports("extracting") >= 2

\* the results of the selectors findMessageElements tries, in its order
Tried ==
    LET parts == IF probe.selector = <<>> THEN <<>>
                 ELSE SelectorParts(probe.selector)
    IN  [i \in DOMAIN parts |-> QueryAll(probe.matches, parts[i])]
            \o probe.generic

\* the strategies that are valid and match something
Hits == { i \in DOMAIN Tried : Tried[i].valid /\ Tried[i].els # <<>> }

\* C18: findMessageElements returns exactly the match set of the first
\* strategy (the parts of the platform selector, then the generic list) that
\* is valid and matches something, unmerged, and nothing if there is none.
C18_FirstNonEmptyStrategy ==
    answer.fn = "findMessageElements"
        => IF Hits = {} THEN answer.value = <<>>
           ELSE answer.value
                  = Tried[CHOOSE i \in Hits : \A j \in Hits : i <= j].els

\* the first part of "x,b" was invalid, the second matched, and a generic
\* selector matched other elements
C18_Witness ==
    /\ answer.fn = "findMessageElements"
    /\ probe.selector = <<120, 44, 98>>
    /\ answer.value = <<"e1">>
    /\ probe.generic[1].els = <<"e2", "e1">>

\* p comes before q in a breadth-first walk
PathBefore(p, q) ==
    \/ Len(p) < Len(q)
    \/ /\ Len(p) = Len(q)
       /\ \E k \in DOMAIN p :
            p[k] < q[k] /\ \A j \in 1..(k - 1) : p[j] = q[j]

\* the scrollable descendants at most three levels below the container
Candidates(dom) == { p \in dom.scrollable : Len(p) <= 3 }

\* C19: findScrollableElement returns the container if it scrolls, else the
\* shallowest scrollable descendant at most 3 levels down, else the nearest
\* scrollable ancestor below the body, else the container.
C19_ShallowestWithinThree ==
    answer.fn = "findScrollableElement"
        => LET dom == probe.dom
           IN  answer.value =
                 IF dom.container THEN Found("container", <<>>, 0)
                 ELSE IF Candidates(dom) # {}
                 THEN Found("descendant",
                            CHOOSE p \in Candidates(dom) :
                              \A q \in Candidates(dom) \ {p} : PathBefore(p, q),
                            0)
                 ELSE IF \E i \in DOMAIN dom.ancestors : dom.ancestors[i]
                 THEN Found("ancestor", <<>>,
                            CHOOSE i \in DOMAIN dom.ancestors :
                              /\ dom.ancestors[i]
                              /\ \A j \in 1..(i - 1) : ~dom.ancestors[j])
                 ELSE Found("container", <<>>, 0)

WrapAdd(a, b) ==
    IF a > 0 /\ b > 0 /\ a > 2147483647 - b
    THEN (a - 2147483647 - 1) + (b - 2147483647 - 1)
    ELSE IF a < 0 /\ b < 0 /\ a < (-2147483647 - 1) - b
    THEN (a + 2147483647 + 1) + (b + 2147483647 + 1)
    ELSE a + b

\* h * 31 wrapped to a signed 32-bit integer
Times31(h) ==
    LET h2 == WrapAdd(h, h)
        h4 == WrapAdd(h2, h2)
        h8 == WrapAdd(h4, h4)
        h16 == WrapAdd(h8, h8)
    IN  WrapAdd(h16, WrapAdd(h8, WrapAdd(h4, WrapAdd(h2, h))))

\* the rolling hash h := h * 31 + charCode, from 0
RECURSIVE RollingHash(_)
RollingHash(str) ==
    IF str = <<>> THEN 0
    ELSE WrapAdd(Times31(RollingHash(SubSeq(str, 1, Len(str) - 1))),
                 str[Len(str)])

\* the hexadecimal digits of a natural number
RECURSIVE HexNat(_)
HexNat(n) ==
    LET digits == <<48, 49, 50, 51, 52, 53, 54, 55, 56, 57,
                    97, 98, 99, 100, 101, 102>>
    IN  IF n < 16 THEN <<digits[n + 1]>>
        ELSE HexNat(n \div 16) \o <<digits[(n % 16) + 1]>>

\* an integer in hexadecimal, with a minus sign when negative
SignedHex(h) ==
    IF h >= 0 THEN HexNat(h)
    ELSE IF h = -2147483647 - 1 THEN <<45, 56, 48, 48, 48, 48, 48, 48, 48>>
    ELSE <<45>> \o HexNat(-h)

\* C21: hashString returns the rolling hash h := h * 31 + charCode, wrapped
\* to a signed 32-bit integer after each character and starting from 0, in
\* hexadecimal with a leading minus sign when negative; "" hashes to "0".
C21_RollingHash ==
    answer.fn = "hashString"
        => /\ answer.value = SignedHex(RollingHash(probe.str))
           /\ probe.str = <<>> => answer.value = <<48>>

\* a string whose hash wrapped around to a negative value
C21_Witness ==
    /\ answer.fn = "hashString"
    /\ Len(probe.str) >= 6
    /\ Head(answer.value) = 45

\* the hash of the first 300 characters of the trimmed text followed by the
\* first 50 characters of the class name
HashOfTrimmedPrefix(el) ==
    hashString(Slice(Trim(el.textContent), 300) \o Slice(el.className, 50))

\* C22: the fingerprint of an element without identifier is the hash of the
\* first 300 characters of its trimmed text followed by at most the first 50
\* characters of its class name, so that leading white space in the raw text
\* does not change it.
C22_HashOfTrimmedPrefix ==
    answer.fn = "hashElement" /\ probe.el.dataId = <<>>
        => answer.value = HashOfTrimmedPrefix(probe.el)

\* the characters of a hexadecimal number with sign
HexChars == {45} \cup (48..57) \cup (97..102)

\* C23: the fingerprint of an element with a page-supplied identifier is
\* "id_" followed by the identifier, whatever its text and class name are;
\* a content-hash fingerprint consists of hexadecimal digits and a sign, so
\* that it never equals an identifier-derived one.
C23_IdentifierFingerprint ==
    /\ answer.fn = "hashElement" /\ probe.el.dataId # <<>>
         => /\ answer.value = IdPrefix \o probe.el.dataId
            /\ \A s \in StringProbes : hashString(s.str) # answer.value
            /\ \A e \in HashProbes :
                 e.el.dataId = <<>> => hashElement(e.el) # answer.value
    /\ ( \/ answer.fn = "hashString"
         \/ answer.fn = "hashElement" /\ probe.el.dataId = <<>> )
         => /\ answer.value # <<>>
            /\ \A i \in DOMAIN answer.value : answer.value[i] \in HexChars

\* an empty element was fingerprinted by its data-id "0", the hash of the
\* empty string
C23_Witness ==
    /\ answer.fn = "hashElement"
    /\ probe.el = RowHexId
    /\ answer.value = <<105, 100, 95, 48>>
    /\ hashString(probe.el.textContent) = <<48>>

\* the stability test of a phase-1 iteration, on what it observed
SettledAtTop ==
    scrollHeight' = previousScrollHeight /\ scrollTop' <= 5 /\ ~loadMoreClicked

\* C24: a phase-1 iteration sets the stable-counter to one more than before
\* exactly when the scroll height equals the one of the previous iteration,
\* the position is at most 5px and the iteration did not click, and to zero
\* otherwise (an iteration that leaves the loop by a break had counted up);
\* between iterations the counter never exceeds the number of latest
\* iterations in a row without a click.
C24_StableCounter ==
    /\ [][(pc = "p1_wait" /\ pc' = "p1_loop")
            => stableCount' = IF SettledAtTop THEN stableCount + 1 ELSE 0]_vars
    /\ [][(pc = "p1_wait" /\ pc' = "p2_wait500")
            => (SettledAtTop /\ stableCount + 1 <= quietIterations)]_vars
    /\ [](pc = "p1_loop" => stableCount <= quietIterations)

\* after a click, five iterations without one passed, of which only the
\* last two found the page settled
C24_Witness ==
    /\ pc = "p1_loop"
    /\ clicked
    /\ quietIterations = 5
    /\ stableCount = 2

\* C25: the phase-1 loop is left only when the stable-counter has reached
\* 5, or has reached 3 while no load-more control is visible, or the
\* iteration cap is reached, or the session is cancelled.
C25_ExitSituations ==
    [][(pc \in Phase1 /\ pc' = "p2_wait500")
         => \/ pc = "p1_loop" /\ iteration >= maxScrollAttempts
            \/ pc = "p1_loop" /\ ~isCapturing
            \/ pc = "p1_wait" /\ SettledAtTop /\ stableCount + 1 >= 5
            \/ pc = "p1_wait" /\ SettledAtTop /\ stableCount + 1 >= 3
                 /\ ~button'.visible]_vars

\* C26: a call of tryClickLoadMore clicks at most one control, and only one
\* that is visible and enabled, whichever strategy found it; it returns
\* true exactly when it clicked.
C26_ClicksOneEnabledControl ==
    answer.fn = "tryClickLoadMore" /\ ~answer.threw
        => /\ Len(answer.clicks) <= 1
           /\ \A k \in DOMAIN answer.clicks :
                /\ probe.page[answer.clicks[k]].visible
                /\ ~probe.page[answer.clicks[k]].disabled
           /\ answer.returned <=> answer.clicks # <<>>

\* C27: no capture pass runs before phase 1 is over: throughout phase 1 the
\* accumulator and the seen-set are empty, and the first capture pass of a
\* call is the one that follows the first wait of scrollAndCaptureAll.
C27_NoCaptureBeforeSweep ==
    /\ [](pc \in Phase1
            => capturedMessages = <<>> /\ seenMessageHashes = {} /\ ~captured)
    /\ [][(~captured /\ captured') => (pc = "p2_wait500")]_vars

\* the first pass of a call captured rows that phase 1 had clicked in
C27_Witness ==
    /\ pc = "p2_loop"
    /\ totalScrolled = 0
    /\ clicked
    /\ loaded > loadedAtStart
    /\ Len(capturedMessages) > Len(host.doc)

\* C28: the sweep iteration that finds the page at the bottom is followed
\* by one wait and capture pass, then the 100px nudge, one more wait and
\* capture pass, and the return: no further iteration is started, wherever
\* the page then is.
C28_BottomSequence ==
    /\ [][(pc = "p2_wait100" /\ pc' \notin {pc, "threw"}
              /\ AtBottom(host, scrollHeight', scrollTop'))
           => (pc' = "p2_bottom500")]_vars
    /\ [][(pc = "p2_bottom500" /\ pc' # pc)
           => /\ pc' = "p2_bottom300"
              /\ captured'
              /\ totalScrolled' = totalScrolled
              /\ host.metrics = "quiet"
                   => scrollTop' = Clamp(host, scrollHeight', scrollTop + 100)]_vars
    /\ [][(pc = "p2_bottom300" /\ pc' # pc)
           => (pc' = "returned" /\ totalScrolled' = totalScrolled)]_vars

\* C29: on a page whose scroll height does not change, a sweep whose
\* captured-message count has not grown for 8 iterations in a row ends: it
\* is never about to start a further iteration.
C29_SweepEndsWhenSettled ==
    ~( /\ pc = "p2_loop"
       /\ isCapturing
       /\ host.metrics = "quiet" /\ ~host.lazy
       /\ sweepStable >= maxStable )

\* the texts the sub-strategies of extractContent find for the probed
\* element, in their order: the node of the platform selector, the nodes
\* of the generic selectors, the element's own text
SubStrategyTexts ==
    (IF probe.platform.messageContent = "valid" THEN probe.el.platformMatch
     ELSE <<>>)
        \o probe.el.genericTexts \o <<probe.el.ownText>>

\* the sub-strategies that yield text
Yielding == { i \in DOMAIN SubStrategyTexts : Trim(SubStrategyTexts[i]) # <<>> }

\* C30: extractContent returns the text of the first sub-strategy that
\* yields any; it returns the empty string only if none does, the element's
\* own text included.
C30_FallsThroughEmpty ==
    answer.fn = "extractContent" /\ ~answer.threw
        => IF Yielding = {} THEN answer.value = <<>>
           ELSE answer.value
                  = Trim(SubStrategyTexts[CHOOSE i \in Yielding :
                                            \A j \in Yielding : i <= j])

\* C31: every returned message has the id, role, content, timestamp,
\* codeBlocks and artifacts it was captured with, and no rawHtml; the
\* accumulator keeps its messages as captured, with their capture order
\* and rawHtml, when the call returns.
C31_FinalizationFrame ==
    /\ [](pc = "returned"
            => \A k \in DOMAIN result :
                 LET msg == capturedMessages[CapturedAt(result[k].id)]
                 IN  /\ result[k].role = msg.role
                     /\ result[k].content = msg.content
                     /\ result[k].timestamp = msg.timestamp
                     /\ result[k].codeBlocks = msg.codeBlocks
                     /\ result[k].artifacts = msg.artifacts
                     /\ result[k].rawHtml = <<>>)
    /\ [][(pc # "returned" /\ pc' = "returned")
            => /\ Len(capturedMessages') >= Len(capturedMessages)
               /\ SubSeq(capturedMessages', 1, Len(capturedMessages))
                    = capturedMessages
               /\ \A i \in DOMAIN capturedMessages' :
                    /\ capturedMessages'[i].order = i - 1
                    /\ capturedMessages'[i].rawHtml # <<>>]_vars

\* a returned message with timestamp, code block and artifact was renumbered
C31_Witness ==
    /\ pc = "returned"
    /\ \E k \in DOMAIN result :
         /\ result[k].timestamp # <<>>
         /\ result[k].codeBlocks # <<>>
         /\ result[k].artifacts # <<>>
         /\ result[k].role = "assistant"
         /\ capturedMessages[CapturedAt(result[k].id)].order > result[k].order

\* the pcs at which the end of a wait runs a capture pass
PassPoints == {"p2_wait500", "p2_wait100", "p2_bottom500", "p2_bottom300"}

\* the step is a capture pass over the rendered rows
PassOver(rendered) ==
    /\ pc \in PassPoints
    /\ pc' # pc
    /\ ~CapturePass(rendered).threw
    /\ capturedMessages' = CapturePass(rendered).msgs
    /\ seenMessageHashes' = CapturePass(rendered).seen

\* C32: after a capture pass, every element the pass discovered with
\* non-empty extracted content has a message under its fingerprint in the
\* accumulator.
C32_PopulatedRowCaptured ==
    [][\A r \in Renderings(host, loaded) :
         PassOver(r)
            => LET els == findMessageElements(platform, host, r)
               IN  \A e \in DOMAIN els :
                     Len(Trim(extractContent(els[e], platform))) > 0
                        => \E i \in DOMAIN capturedMessages' :
                             FingerprintOf(capturedMessages'[i])
                                = hashElement(els[e])]_vars

\* C33: every captured message has its content in the final output:
\* finalization drops a message only for one of exactly the same content.
C33_NoDistinctContentLost ==
    pc = "returned"
        => \A i \in DOMAIN capturedMessages :
             \E k \in DOMAIN result :
                /\ result[k].content = capturedMessages[i].content
                /\ CapturedAt(result[k].id) <= i

\* C34: once stop() has hit a call suspended in a wait, that call begins no
\* further iteration and appends nothing to the accumulator of a call begun
\* since, although that call has set the run flag again.
C34_CancellationSurvivesRestart ==
    [][(stopPhase # "none" /\ pc \notin Ended /\ isCapturing)
         => /\ iteration' = iteration
            /\ totalScrolled' <= totalScrolled
            /\ Len(capturedMessages') <= Len(capturedMessages)]_vars

\* the startCapture calls that are awaiting ChatScraper.captureFullHistory
Extracting == { i \in DOMAIN captures : captures[i].pc = "extract" }

\* C35: at most one startCapture call is in progress, and so at most one
\* captureFullHistory call; a click on the capture button while
\* Overlay.isCapturing is true starts none; and when the call ends, by
\* success or by error, Overlay.isCapturing is false.
C35_OneCaptureAtATime ==
    /\ [](Len(captures) <= 1 /\ Cardinality(Extracting) <= 1)
    /\ [][Overlay.isCapturing
            => Len(captures') <= Len(captures)]_vars
    /\ [][Len(captures') < Len(captures) => ~Overlay'.isCapturing]_vars

\* a click on the capture button of a second overlay element was refused
\* while the call begun on the first awaited captureFullHistory
C35_Witness ==
    /\ refused
    /\ Overlay.isCapturing
    /\ Extracting # {}
    /\ captures[1].captureBtn # Overlay.overlay

\* C36: while Overlay.isCapturing is true the overlay element is in the
\* document and isVisible is true.
C36_NoTeardownWhileCapturing ==
    Overlay.isCapturing
        => /\ Overlay.overlay \in elements.attached
           /\ Overlay.isVisible

====
